---- MODULE Spec2Model ----
(***************************************************************************)
(* Model of abort-request (src/src/index.ts): createAbortAbleRequest, the  *)
(* cancellable wrapper around one request function, and                    *)
(* createAutoAbortExpiredRequest, the coordinator that aborts the previous *)
(* wrapper on every new call.                                              *)
(*                                                                         *)
(* JavaScript runs the library on one thread.  A synchronous function body *)
(* is one action.  Promise reactions are jobs of the microtask queue, run  *)
(* first-in first-out, one job per step; application code (another         *)
(* promise callback, an event handler) may call the library between any    *)
(* two jobs, and an underlying request may settle at any time.             *)
(***************************************************************************)
EXTENDS Integers, Sequences, FiniteSets, TLC

\* Total number of wrapper invocations (promises) made in one behaviour.
MaxCalls == 3

\* The coordinators the application made with createAutoAbortExpiredRequest.
Coordinators == {"c1", "c2"}
\* Owner of a wrapper the application made itself with createAbortAbleRequest.
Direct == "direct"
Owners == Coordinators \cup {Direct}

\* How an underlying request settles: it resolves with a value or rejects with an
\* error of its own.  The request of the p-th invocation produces the p-th result
\* object, so the results of different invocations are told apart.
Kinds == {"value", "error"}
\* What else a request may reject with: null, undefined, a string, an object
\* without a name, an object of its own whose name is 'AbortError'.
OddKinds == {"null", "undefined", "string", "object", "named"}
\* request(...arg) throws instead of returning a promise.
Throw == "throw"

\* The JavaScript type of the settled value and its `name` property, if it has one.
TypeOf(kind) == IF kind \in {"null", "undefined", "string"} THEN kind ELSE "object"
NameOf(kind) ==
    CASE kind \in {"error", Throw} -> "Error"
      [] kind = "named" -> "AbortError"
      [] OTHER -> ""
Outcome(kind, p) ==
    [kind |-> kind, type |-> TypeOf(kind), name |-> NameOf(kind), val |-> p]

\* `let cleanup: () => void;` holds undefined until the first call.
Undefined == 0
\* new DOMException('Aborted', 'AbortError')
AbortError == [kind |-> "error", type |-> "object", name |-> "AbortError", val |-> 0]
\* The future has no outcome yet.
NoOutcome == [kind |-> "none", type |-> "undefined", name |-> "", val |-> 0]
\* No exception escaped the last library call.
NoThrow == [op |-> "none", who |-> "none", err |-> "none"]
\* cleanup() with cleanup undefined: "TypeError: cleanup is not a function".
TypeErrorThrown(op, who) == [op |-> op, who |-> who, err |-> "TypeError"]

\* One argument of a call: a plain value, or a callable.  does is what a callable
\* does besides returning the argument list when the coordinator invokes it:
\* nothing, coordinator.abort(), or a call of the coordinator of its own.
\* signal is the wrapper whose signal the value holds, if any.
Plain(id) == [callable |-> FALSE, does |-> "none", id |-> id, signal |-> 0]
Callable(does) == [callable |-> TRUE, does |-> does, id |-> "fn", signal |-> 0]
\* What the README's builder returns: [{ params, signal }].
Built(w) == <<[callable |-> FALSE, does |-> "none", id |-> "params", signal |-> w]>>
\* The README's plain call: one object argument.
Literal == <<Plain("params")>>
\* The argument builder has not run for this instance.
NotBuilt == [runs |-> 0, did |-> "none", signal |-> 0, slot |-> 0, aborted |-> FALSE]

VARIABLES
    wrappers,    \* every createAbortAbleRequest instance: its AbortController and listeners
    promises,    \* every future returned by a wrapper invocation, with its underlying request
    cleanup,     \* per coordinator: the wrapper its cleanup closure aborts, or Undefined
    microtasks,  \* the microtask queue: promise reaction jobs, first-in first-out
    detail,      \* application state written by the consumers' then-callbacks
    thrown,      \* the exception that escaped the most recent library call, if any
    burst,       \* history: every call of the coordinator found the previous future pending
    spaced       \* history: no call or abort() of the coordinator found a future pending

vars == <<wrappers, promises, cleanup, microtasks, detail, thrown, burst, spaced>>

\* The program state as one record, so that a function body is a composition of steps.
Cur == [wrappers |-> wrappers, promises |-> promises, cleanup |-> cleanup,
        microtasks |-> microtasks, detail |-> detail, thrown |-> thrown,
        burst |-> burst, spaced |-> spaced]

Install(st) ==
    /\ wrappers' = st.wrappers
    /\ promises' = st.promises
    /\ cleanup' = st.cleanup
    /\ microtasks' = st.microtasks
    /\ detail' = st.detail
    /\ thrown' = st.thrown
    /\ burst' = st.burst
    /\ spaced' = st.spaced

----------------------------------------------------------------------------
\* Helpers over a state record.

WrapperIds(st) == 1..Len(st.wrappers)
PromiseIds(st) == 1..Len(st.promises)

\* The futures returned by the calls made on owner o, oldest first (ids grow with time).
PromisesOf(st, o) == {p \in PromiseIds(st) : st.wrappers[st.promises[p].w].owner = o}

\* The wrappers created for owner o.
WrappersOf(st, o) == {w \in WrapperIds(st) : st.wrappers[w].owner = o}

Max(S) == CHOOSE x \in S : \A y \in S : y <= x

----------------------------------------------------------------------------
\* createAbortAbleRequest (src/src/index.ts 30-62).

\* Mutant: a hand-rolled deferred that lets every resolve or reject through.
SettlePromiseUnguarded(st, p, state, outcome) ==
    [st EXCEPT !.promises[p].state = state,
               !.promises[p].outcome = outcome,
               !.microtasks = Append(@, [kind |-> "consumer", p |-> p])]

\* A promise's resolve and reject functions act only while it is pending; a
\* settled promise queues the reaction of the consumer's .then(...).
SettlePromise(st, p, state, outcome) ==
    IF st.promises[p].state = "pending"
    THEN [st EXCEPT !.promises[p].state = state,
                    !.promises[p].outcome = outcome,
                    !.microtasks = Append(@, [kind |-> "consumer", p |-> p])]
    ELSE st

\* resolve(res), line 52.
resolve(st, p, res) == SettlePromise(st, p, "resolved", res)

\* reject(err), lines 48 and 55.
reject(st, p, err) == SettlePromise(st, p, "rejected", err)

\* Mutant: the listener does not reject the future.
abortListenerInert(st, p) == st

\* The 'abort' listener of one invocation, lines 47-49.
abortListener(st, p) == reject(st, p, AbortError)

\* dispatchEvent('abort'): the listeners run synchronously, in registration order.
RECURSIVE dispatchAbort(_, _)
dispatchAbort(st, ls) ==
    IF ls = <<>> THEN st
    ELSE dispatchAbort(abortListener(st, Head(ls)), Tail(ls))

\* History: the futures of wrapper w, among the first n, that are pending when its
\* token aborts.
RECURSIVE MarkCancelled(_, _, _)
MarkCancelled(st, w, n) ==
    IF n = 0 THEN st
    ELSE LET rest == MarkCancelled(st, w, n - 1) IN
         IF rest.promises[n].w = w /\ rest.promises[n].state = "pending"
         THEN [rest EXCEPT !.promises[n].cancelledFirst = TRUE]
         ELSE rest

\* abort = () => abortControl.abort(), lines 39-41.  AbortController.abort() does
\* nothing on an aborted signal; otherwise it sets the flag and fires the event.
abort(st, w) ==
    IF st.wrappers[w].aborted THEN st
    ELSE LET marked == MarkCancelled(st, w, Len(st.promises))
             flagged == [marked EXCEPT !.wrappers[w].aborted = TRUE]
         IN  dispatchAbort(flagged, flagged.wrappers[w].listeners)

\* Mutant: one AbortController per owner, made once and used again by every
\* later instance.
newWrapperReused(st, owner) ==
    IF WrappersOf(st, owner) # {} THEN st
    ELSE [st EXCEPT !.wrappers =
            Append(@, [aborted |-> FALSE, listeners |-> <<>>, owner |-> owner,
                       builder |-> NotBuilt])]

\* const abortControl = new AbortController(), lines 37-38: a fresh token.
newWrapper(st, owner) ==
    [st EXCEPT !.wrappers =
        Append(@, [aborted |-> FALSE, listeners |-> <<>>, owner |-> owner,
                   builder |-> NotBuilt])]

\* History, read when request(...arg) is invoked at line 50: the other wrappers of
\* the same owner whose token is not aborted, and their futures still pending.
LiveAtStart(st, w) ==
    {x \in WrappersOf(st, st.wrappers[w].owner) \ {w} : ~st.wrappers[x].aborted}
PendingAtStart(st, w) ==
    {q \in PromisesOf(st, st.wrappers[w].owner) :
        st.promises[q].w # w /\ st.promises[q].state = "pending"}

\* The future of a new invocation of wrapper w with the argument list arg.  req
\* is the state of the underlying request: "none" when it was never called.
NewPromise(st, w, arg, state, outcome, req, plan) ==
    [w |-> w, arg |-> arg, state |-> state, outcome |-> outcome, req |-> req,
     plan |-> plan, cancelledFirst |-> st.wrappers[w].aborted, thenRan |-> "no",
     classified |-> "no",
     liveAtStart |-> LiveAtStart(st, w), pendingAtStart |-> PendingAtStart(st, w)]

\* Mutant: the wrapper starts the request whatever the state of its token.
funUnchecked(st, w, arg, kind) ==
    LET p == Len(st.promises) + 1 IN
    [st EXCEPT !.wrappers[w].listeners = Append(@, p),
               !.promises = Append(@, NewPromise(st, w, arg, "pending", NoOutcome,
                                                 "inflight", Outcome(kind, p)))]

\* Mutant: request(...arg) is called outside the promise executor, so what it
\* throws leaves the wrapper and no future is returned.
funThrowEscapes(st, w, arg, kind) ==
    LET p == Len(st.promises) + 1 IN
    IF st.wrappers[w].aborted
    THEN [st EXCEPT !.promises = Append(@, NewPromise(st, w, arg, "rejected", AbortError,
                                                      "none", Outcome(kind, p))),
                    !.microtasks = Append(@, [kind |-> "consumer", p |-> p])]
    ELSE IF kind = Throw
    THEN [st EXCEPT !.thrown = [op |-> "call", who |-> st.wrappers[w].owner, err |-> "Error"]]
    ELSE [st EXCEPT !.wrappers[w].listeners = Append(@, p),
                    !.promises = Append(@, NewPromise(st, w, arg, "pending", NoOutcome,
                                                      "inflight", Outcome(kind, p)))]

\* fun = (...arg) => ..., lines 43-58.  kind is how the underlying request will
\* behave.  The consumer chains .then(...) on the returned future at once.
fun(st, w, arg, kind) ==
    LET p == Len(st.promises) + 1
        plan == Outcome(kind, p)
    IN
    IF st.wrappers[w].aborted
    THEN \* lines 44-45: Promise.reject(new DOMException('Aborted', 'AbortError'))
         [st EXCEPT !.promises = Append(@, NewPromise(st, w, arg, "rejected", AbortError,
                                                      "none", plan)),
                    !.microtasks = Append(@, [kind |-> "consumer", p |-> p])]
    ELSE IF kind = Throw
    THEN \* lines 46-50: the listener is registered, request(...arg) throws and the
         \* promise constructor rejects the new promise with what its executor threw
         [st EXCEPT !.wrappers[w].listeners = Append(@, p),
                    !.promises = Append(@, NewPromise(st, w, arg, "rejected", plan,
                                                      "threw", plan)),
                    !.microtasks = Append(@, [kind |-> "consumer", p |-> p])]
    ELSE \* lines 46-57: addEventListener, then request(...arg).then(...).catch(...)
         [st EXCEPT !.wrappers[w].listeners = Append(@, p),
                    !.promises = Append(@, NewPromise(st, w, arg, "pending", NoOutcome,
                                                      "inflight", plan))]

----------------------------------------------------------------------------
\* isAbortError (src/src/index.ts 25-27).

\* error.name === 'AbortError'.  Reading a property of null or undefined throws a
\* TypeError; a primitive has no name.
isAbortError(error) ==
    IF error.type \in {"null", "undefined"} THEN "TypeError"
    ELSE IF error.name = "AbortError" THEN "true"
    ELSE "false"

----------------------------------------------------------------------------
\* createAutoAbortExpiredRequest (src/src/index.ts 64-114).

\* Mutant: the previous request is not cancelled.
cleanupPreviousSkipped(st, c) == st

\* Mutant: `let cleanup` is hoisted to module level, one slot for all coordinators:
\* the call cancels the instance recorded last by any of them.
cleanupPreviousShared(st, c) ==
    LET recorded == {st.cleanup[d] : d \in Coordinators} \ {Undefined} IN
    IF recorded # {} THEN abort(st, Max(recorded)) ELSE st

\* Mutant: the previous instance is cancelled only while a future of it is pending.
cleanupPreviousIfPending(st, c) ==
    IF /\ st.cleanup[c] # Undefined
       /\ \E p \in PromiseIds(st) :
            st.promises[p].w = st.cleanup[c] /\ st.promises[p].state = "pending"
    THEN abort(st, st.cleanup[c])
    ELSE st

\* if (cleanup) { cleanup(); }, lines 95-98.
cleanupPrevious(st, c) ==
    IF st.cleanup[c] # Undefined THEN abort(st, st.cleanup[c]) ELSE st

\* Mutant: only the first instance is ever recorded.
recordCleanupOnce(st, c, w) ==
    IF st.cleanup[c] = Undefined THEN [st EXCEPT !.cleanup[c] = w] ELSE st

\* cleanup = () => { abortAbleReQuest.abort(); }, lines 100-103.
recordCleanup(st, c, w) == [st EXCEPT !.cleanup[c] = w]

\* History: the call found a previous future of this coordinator already settled.
NoteBurst(st, c) ==
    LET ps == PromisesOf(st, c) IN
    IF ps # {} /\ st.promises[Max(ps)].state # "pending"
    THEN [st EXCEPT !.burst[c] = FALSE]
    ELSE st

\* History: the call or abort() found a future of this coordinator still pending.
NoteSpaced(st, c) ==
    IF \E p \in PromisesOf(st, c) : st.promises[p].state = "pending"
    THEN [st EXCEPT !.spaced[c] = FALSE]
    ELSE st

\* autoAbortExpiredRequest.abort = () => { cleanup(); }, lines 110-112.
coordinatorAbort(st, c) ==
    IF st.cleanup[c] = Undefined
    THEN [st EXCEPT !.thrown = TypeErrorThrown("abort", c)]
    ELSE [abort(NoteSpaced(st, c), st.cleanup[c]) EXCEPT !.thrown = NoThrow]

RECURSIVE autoAbortExpiredRequest(_, _, _, _)

\* argFun({ signal }), line 90: the application's builder f, invoked for the
\* instance w of coordinator c.  History: how often it ran for w, what it did, the
\* signal it was given, and the current slot and the token as it found them.
argFun(st, c, w, f) ==
    LET seen == [st EXCEPT !.wrappers[w].builder =
                     [runs |-> @.runs + 1, did |-> f.does, signal |-> w,
                      slot |-> st.cleanup[c], aborted |-> st.wrappers[w].aborted]]
        after == CASE f.does = "abort" -> coordinatorAbort(seen, c)
                   [] f.does = "call" -> autoAbortExpiredRequest(seen, c, Literal, "value")
                   [] OTHER -> seen
    IN  [st |-> after, arg |-> Built(w)]

\* Mutant: a leading callable is taken for a builder whatever follows it.
getArgAnyLength(st, c, w, arg) ==
    IF Len(arg) >= 1 /\ arg[1].callable
    THEN argFun(st, c, w, arg[1])
    ELSE [st |-> st, arg |-> arg]

\* getArg, lines 86-93: typeof arg[0] === 'function' && arg.length === 1.
getArg(st, c, w, arg) ==
    IF Len(arg) = 1 /\ arg[1].callable
    THEN argFun(st, c, w, arg[1])
    ELSE [st |-> st, arg |-> arg]

\* Mutant: the new request is started before the previous one is cancelled.
autoAbortExpiredRequestLateCleanup(st, c, arg, kind) ==
    LET noted == NoteSpaced(NoteBurst([st EXCEPT !.thrown = NoThrow], c), c)
        created == newWrapper(noted, c)
        w == Len(created.wrappers)
        built == getArg(created, c, w, arg)
        invoked == fun(built.st, w, built.arg, kind)
        cleaned == cleanupPrevious(invoked, c)
    IN  recordCleanup(cleaned, c, w)

\* Mutant: the new instance is recorded before cleanup() is called, so the call
\* cancels itself.
autoAbortExpiredRequestRecordFirst(st, c, arg, kind) ==
    LET noted == NoteSpaced(NoteBurst([st EXCEPT !.thrown = NoThrow], c), c)
        created == newWrapper(noted, c)
        w == Len(created.wrappers)
        recorded == recordCleanup(created, c, w)
        cleaned == cleanupPrevious(recorded, c)
        built == getArg(cleaned, c, w, arg)
    IN  fun(built.st, w, built.arg, kind)

\* Mutant: the steps in the order cancel, construct, resolve the arguments,
\* record, invoke: the builder runs before the new instance is recorded.
autoAbortExpiredRequestRecordLate(st, c, arg, kind) ==
    LET noted == NoteSpaced(NoteBurst([st EXCEPT !.thrown = NoThrow], c), c)
        cleaned == cleanupPrevious(noted, c)
        created == newWrapper(cleaned, c)
        w == Len(created.wrappers)
        built == getArg(created, c, w, arg)
        recorded == recordCleanup(built.st, c, w)
    IN  fun(recorded, w, built.arg, kind)

\* Mutant: the arguments are resolved first, before the previous instance is
\* cancelled and the new one recorded.
autoAbortExpiredRequestBuildFirst(st, c, arg, kind) ==
    LET noted == NoteSpaced(NoteBurst([st EXCEPT !.thrown = NoThrow], c), c)
        created == newWrapper(noted, c)
        w == Len(created.wrappers)
        built == getArg(created, c, w, arg)
        cleaned == cleanupPrevious(built.st, c)
        recorded == recordCleanup(cleaned, c, w)
    IN  fun(recorded, w, built.arg, kind)

\* autoAbortExpiredRequest = (...arg) => ..., lines 82-108.
autoAbortExpiredRequest(st, c, arg, kind) ==
    LET noted == NoteSpaced(NoteBurst([st EXCEPT !.thrown = NoThrow], c), c)
        created == newWrapper(noted, c)                \* line 83
        w == Len(created.wrappers)
        cleaned == cleanupPrevious(created, c)         \* lines 95-98
        recorded == recordCleanup(cleaned, c, w)       \* lines 100-103
        built == getArg(recorded, c, w, arg)           \* line 105
    IN  fun(built.st, w, built.arg, kind)              \* line 107

----------------------------------------------------------------------------
\* Promise reaction jobs.

\* Mutant: .then(() => { resolve(); }) drops the request's value.
thenReactionLosesValue(st, p) ==
    LET done == IF st.promises[p].req = "fulfilled"
                THEN resolve(st, p, Outcome("value", 0))
                ELSE st
    IN  [done EXCEPT !.microtasks = Append(@, [kind |-> "catch", p |-> p])]

\* .then((res) => { resolve(res); }), lines 51-53, run once the underlying
\* request has settled.  A rejection passes through to the chained .catch.
thenReaction(st, p) ==
    LET done == IF st.promises[p].req = "fulfilled"
                THEN resolve(st, p, st.promises[p].plan)
                ELSE st
    IN  [done EXCEPT !.microtasks = Append(@, [kind |-> "catch", p |-> p])]

\* Mutant: every failure of the request is reported as a cancellation.
catchReactionAsAbort(st, p) ==
    IF st.promises[p].req = "rejected"
    THEN reject(st, p, AbortError)
    ELSE st

\* .catch((err) => { reject(err); }), lines 54-56.
catchReaction(st, p) ==
    IF st.promises[p].req = "rejected"
    THEN reject(st, p, st.promises[p].plan)
    ELSE st

\* A newer call has been made on the coordinator of future p: every call makes
\* an instance of its own, in the order of the calls.
Superseded(st, p) ==
    /\ st.wrappers[st.promises[p].w].owner \in Coordinators
    /\ \E w \in WrappersOf(st, st.wrappers[st.promises[p].w].owner) : w > st.promises[p].w

\* The consumer of the README: .then((res) => { detail.value = res; }) runs for a
\* fulfilled future, .catch((err) => { if (!isAbortError(err)) ... }) for a
\* rejected one.
consumerReaction(st, p) ==
    IF st.promises[p].state = "resolved"
    THEN [st EXCEPT !.detail[st.wrappers[st.promises[p].w].owner] = st.promises[p].outcome,
                    !.promises[p].thenRan = IF Superseded(st, p) THEN "stale" ELSE "fresh"]
    ELSE [st EXCEPT !.promises[p].classified = isAbortError(st.promises[p].outcome)]

runJob(st, job) ==
    CASE job.kind = "then" -> thenReaction(st, job.p)
      [] job.kind = "catch" -> catchReaction(st, job.p)
      [] job.kind = "consumer" -> consumerReaction(st, job.p)

\* The underlying request of future p settles as planned; its .then reaction is queued.
settleRequest(st, p) ==
    [st EXCEPT !.promises[p].req = IF st.promises[p].plan.kind = "value"
                                   THEN "fulfilled" ELSE "rejected",
               !.microtasks = Append(@, [kind |-> "then", p |-> p])]

----------------------------------------------------------------------------
\* The state machine.

Init ==
    /\ wrappers = <<>>
    /\ promises = <<>>
    /\ cleanup = [c \in Coordinators |-> Undefined]
    /\ microtasks = <<>>
    /\ detail = [o \in Owners |-> NoOutcome]
    /\ thrown = NoThrow
    /\ burst = [c \in Coordinators |-> TRUE]
    /\ spaced = [c \in Coordinators |-> TRUE]

\* The invocations a call with the argument list arg makes: a builder that calls
\* the coordinator makes a second one.
Invocations(arg) ==
    IF Len(arg) = 1 /\ arg[1].callable /\ arg[1].does = "call" THEN 2 ELSE 1

\* The application calls coordinator c with one of the given argument lists; the
\* underlying request will behave in one of the given ways.
CallForm(c, args, kinds) ==
    \E arg \in args, kind \in kinds :
        /\ Len(promises) + Invocations(arg) <= MaxCalls
        /\ Install(autoAbortExpiredRequest(Cur, c, arg, kind))

\* The application calls coordinator c as the README does, with one object.
CallWith(c, kinds) == CallForm(c, {Literal}, kinds)

\* The application calls coordinator c.
Call(c) == CallWith(c, Kinds)

\* The application calls coordinator c with a request that will resolve.
CallResolving(c) == CallWith(c, {"value"})

\* The application calls c.abort().
Abort(c) ==
    /\ c \in Coordinators
    /\ Install(coordinatorAbort(Cur, c))

\* The application makes a wrapper of its own: createAbortAbleRequest(request).
CreateWrapper ==
    /\ WrappersOf(Cur, Direct) = {}
    /\ Install([newWrapper(Cur, Direct) EXCEPT !.thrown = NoThrow])

\* The application invokes its own wrapper w.
Invoke(w) ==
    /\ Len(promises) < MaxCalls
    /\ \E kind \in Kinds : Install(fun([Cur EXCEPT !.thrown = NoThrow], w, Literal, kind))

\* The application calls w.abort() on its own wrapper.
WrapperAbort(w) ==
    /\ w \in WrapperIds(Cur)
    /\ Install([abort(Cur, w) EXCEPT !.thrown = NoThrow])

\* The underlying request of future p settles.
UnderlyingSettle(p) ==
    /\ p \in PromiseIds(Cur)
    /\ promises[p].req = "inflight"
    /\ Install(settleRequest(Cur, p))

\* The event loop runs the oldest job of the microtask queue.
RunMicrotask ==
    /\ microtasks # <<>>
    /\ Install(runJob([Cur EXCEPT !.microtasks = Tail(@)], Head(microtasks)))

\* An application that shares one coordinator, made once at module level as in
\* the README, among its callers.
Single == {"c1"}

Next ==
    \/ \E c \in Single : Call(c)
    \/ \E c \in Single : Abort(c)
    \/ \E p \in 1..MaxCalls : UnderlyingSettle(p)
    \/ RunMicrotask

Spec == Init /\ [][Next]_vars

\* The same application when every underlying request resolves with a value.
LiveNext ==
    \/ \E c \in Single : CallResolving(c)
    \/ \E c \in Single : Abort(c)
    \/ \E p \in 1..MaxCalls : UnderlyingSettle(p)
    \/ RunMicrotask

\* Every started request settles and the event loop keeps draining the queue.
Fairness ==
    /\ WF_vars(RunMicrotask)
    /\ \A p \in 1..MaxCalls : WF_vars(UnderlyingSettle(p))

LiveSpec == Init /\ [][LiveNext]_vars /\ Fairness

\* The application calls coordinator c with a request that returns a promise
\* that resolves, or throws before returning one.
CallThrowing(c) == CallWith(c, {"value", Throw})

\* The same application over a request function that may throw synchronously.
ThrowNext ==
    \/ \E c \in Single : CallThrowing(c)
    \/ \E c \in Single : Abort(c)
    \/ \E p \in 1..MaxCalls : UnderlyingSettle(p)
    \/ RunMicrotask

ThrowSpec == Init /\ [][ThrowNext]_vars

\* The argument lists of the calls: none, one value, two values, one callable,
\* a callable followed by a value, a value followed by a callable.
ArgForms ==
    {<<>>, <<Plain("a")>>, <<Plain("a"), Plain("b")>>, <<Callable("none")>>,
     <<Callable("none"), Plain("b")>>, <<Plain("a"), Callable("none")>>}

\* The application calls coordinator c with any of the argument lists.
CallArgs(c) == CallForm(c, ArgForms, {"value"})

\* The calls and aborts of an application that passes every kind of argument list,
\* up to the start of the underlying requests.
ArgsNext ==
    \/ \E c \in Single : CallArgs(c)
    \/ \E c \in Single : Abort(c)

ArgsSpec == Init /\ [][ArgsNext]_vars

\* The application calls coordinator c with a request that will reject, with an
\* Error or with anything else a promise can be rejected with.
CallRejecting(c) == CallWith(c, {"error"} \cup OddKinds)

\* The same application, its consumers classifying every rejection they catch.
CatchNext ==
    \/ \E c \in Single : CallRejecting(c)
    \/ \E c \in Single : Abort(c)
    \/ \E p \in 1..MaxCalls : UnderlyingSettle(p)
    \/ RunMicrotask

CatchSpec == Init /\ [][CatchNext]_vars

\* The application calls coordinator c for the first time.
CallOnce(c) ==
    /\ PromisesOf(Cur, c) = {}
    /\ CallResolving(c)

\* An application with two coordinators, each made by a factory call of its own:
\* one shared among its callers, one called once.
PairNext ==
    \/ \E c \in Single : CallResolving(c)
    \/ \E c \in Coordinators \ Single : CallOnce(c)
    \/ \E c \in Coordinators : Abort(c)
    \/ \E p \in 1..MaxCalls : UnderlyingSettle(p)
    \/ RunMicrotask

PairSpec == Init /\ [][PairNext]_vars

\* Argument lists with a builder: one that only builds the list, one that calls
\* coordinator.abort() first, one that calls the coordinator first.
BuilderForms == {<<Callable("none")>>, <<Callable("abort")>>, <<Callable("call")>>}

\* The application calls coordinator c with one object or with a builder.
CallBuilding(c) == CallForm(c, {Literal} \cup BuilderForms, {"value"})

\* The same application with builders that use the coordinator re-entrantly.
ReentrantNext ==
    \/ \E c \in Single : CallBuilding(c)
    \/ \E c \in Single : Abort(c)
    \/ \E p \in 1..MaxCalls : UnderlyingSettle(p)
    \/ RunMicrotask

ReentrantSpec == Init /\ [][ReentrantNext]_vars

\* An application that uses createAbortAbleRequest directly.
WrapperNext ==
    \/ CreateWrapper
    \/ \E w \in WrappersOf(Cur, Direct) : Invoke(w)
    \/ \E w \in WrappersOf(Cur, Direct) : WrapperAbort(w)
    \/ \E p \in 1..MaxCalls : UnderlyingSettle(p)
    \/ RunMicrotask

WrapperSpec == Init /\ [][WrapperNext]_vars

----------------------------------------------------------------------------
\* Vocabulary of the claims.

Owner(p) == wrappers[promises[p].w].owner
Token(p) == wrappers[promises[p].w]
Latest(c) == Max(PromisesOf(Cur, c))
Resolved(p) == promises[p].state = "resolved"
Pending(p) == promises[p].state = "pending"
RejectedWith(p, err) == promises[p].state = "rejected" /\ promises[p].outcome = err
\* No reaction of the underlying request of p is waiting in the microtask queue.
ReactionsDone(p) ==
    /\ promises[p].req \in {"fulfilled", "rejected"}
    /\ \A i \in DOMAIN microtasks :
        ~(microtasks[i].p = p /\ microtasks[i].kind \in {"then", "catch"})

----------------------------------------------------------------------------
\* C1  At-most-one-resolves: when every call on a coordinator was issued while the
\* previous call's future was still pending, every future but the newest is
\* rejected with AbortError, so at most one future is resolved with a value.
C1_AtMostOneResolves ==
    \A c \in Coordinators :
        (burst[c] /\ PromisesOf(Cur, c) # {}) =>
            /\ \A p \in PromisesOf(Cur, c) \ {Latest(c)} : RejectedWith(p, AbortError)
            /\ Cardinality({p \in PromisesOf(Cur, c) : Resolved(p)}) <= 1

\* Three calls in a burst; the underlying requests of all three ran to completion
\* and only the newest future resolved.
C1_Witness ==
    /\ burst["c1"]
    /\ Cardinality(PromisesOf(Cur, "c1")) = 3
    /\ \A p \in PromisesOf(Cur, "c1") : ReactionsDone(p)
    /\ Resolved(Latest("c1"))

----------------------------------------------------------------------------
\* Parts of C2: no future but the newest of a burst is resolved; a call of a
\* burst whose request will resolve; that call resolved with its own request's
\* value, or cancelled by abort(), or superseded by a later call.
C2_EarlierNeverResolve ==
    \A c \in Coordinators :
        burst[c] => \A p \in PromisesOf(Cur, c) : Resolved(p) => p = Latest(c)

C2_NewestIsDue(p) ==
    /\ p \in PromiseIds(Cur)
    /\ Owner(p) \in Coordinators
    /\ burst[Owner(p)]
    /\ promises[p].plan.kind = "value"

C2_NewestResolvedOrCancelled(p) ==
    /\ p \in PromiseIds(Cur)
    /\ \/ Resolved(p) /\ promises[p].outcome = promises[p].plan
       \/ Token(p).aborted
       \/ Superseded(Cur, p)

\* C2  Last-call-wins: in a burst of calls whose underlying requests resolve, no
\* future but the newest ever resolves, and the newest future eventually resolves
\* with exactly its own request's value unless a later call or abort cancels it.
C2_LastCallWins ==
    /\ [] C2_EarlierNeverResolve
    /\ \A p \in 1..MaxCalls : C2_NewestIsDue(p) ~> C2_NewestResolvedOrCancelled(p)

\* Three calls in a burst, all three requests resolved, in the reverse order of
\* the calls, and the third future holds the third value.
C2_Witness ==
    /\ burst["c1"]
    /\ Len(promises) = 3
    /\ \A p \in 1..3 : Owner(p) = "c1" /\ promises[p].plan.kind = "value" /\ ReactionsDone(p)
    /\ Resolved(3) /\ promises[3].outcome = Outcome("value", 3)
    /\ ~Token(3).aborted

----------------------------------------------------------------------------
\* C3  No stale delivery: the consumer's then-callback of a call never runs once
\* a newer call has been issued on the same coordinator.
C3_NoStaleDelivery ==
    \A p \in PromiseIds(Cur) : promises[p].thenRan # "stale"

----------------------------------------------------------------------------
\* C4  Synchronous supersession ordering: at the moment the underlying request of
\* a coordinator call is invoked, the token of every earlier instance of that
\* coordinator is aborted and none of their futures is still pending.
C4_PreviousCancelledBeforeStart ==
    \A p \in PromiseIds(Cur) :
        (Owner(p) \in Coordinators /\ promises[p].req # "none") =>
            /\ promises[p].liveAtStart = {}
            /\ promises[p].pendingAtStart = {}

\* A second call whose request was started while the first call's future was
\* pending at the time the second call was made.
C4_Witness ==
    /\ Len(promises) >= 2
    /\ Owner(1) = "c1" /\ Owner(2) = "c1"
    /\ promises[1].cancelledFirst
    /\ promises[2].req = "inflight"

----------------------------------------------------------------------------
\* C5  Coordinator manual abort: the instance abort() targets is the one created
\* by the most recent call on that coordinator; abort() rejects that call's
\* pending future with AbortError and touches the token of no other instance.
C5_AbortTargetsNewest ==
    \A c \in Coordinators :
        cleanup[c] # Undefined =>
            LET after == coordinatorAbort(Cur, c) IN
            /\ PromisesOf(Cur, c) # {}
            /\ cleanup[c] = promises[Latest(c)].w
            /\ cleanup[c] = Max(WrappersOf(Cur, c))
            /\ Pending(Latest(c)) =>
                 /\ after.promises[Latest(c)].state = "rejected"
                 /\ after.promises[Latest(c)].outcome = AbortError
            /\ \A w \in WrapperIds(Cur) \ {cleanup[c]} : after.wrappers[w] = wrappers[w]
            /\ after.wrappers[cleanup[c]].aborted

\* abort() has cancelled the pending future of the newest of two calls.
C5_Witness ==
    /\ Cardinality(PromisesOf(Cur, "c1")) = 2
    /\ promises[Latest("c1")].cancelledFirst
    /\ RejectedWith(Latest("c1"), AbortError)
    /\ cleanup["c1"] = promises[Latest("c1")].w

----------------------------------------------------------------------------
\* C6  abort() on a coordinator on which no call was ever made does not throw.
C6_AbortBeforeAnyCallDoesNotThrow ==
    \A c \in Coordinators :
        (thrown.op = "abort" /\ thrown.who = c /\ PromisesOf(Cur, c) = {}) =>
            thrown.err = "none"

----------------------------------------------------------------------------
\* C7  Idempotent abort: abort() called twice in a row on a coordinator raises no
\* error either time, and the second call changes no future.
C7_AbortTwiceIsSilent ==
    \A c \in Single :
        LET once == coordinatorAbort(Cur, c)
            twice == coordinatorAbort(once, c)
        IN  /\ once.thrown = NoThrow
            /\ twice.thrown = NoThrow
            /\ twice.promises = once.promises

\* The part of C7 the code keeps: once an instance is recorded, a repeated abort()
\* and an abort() after settlement raise nothing and change no settled future.
IdempotentAbortOnceRecorded ==
    \A c \in Coordinators :
        cleanup[c] # Undefined =>
            LET once == coordinatorAbort(Cur, c)
                twice == coordinatorAbort(once, c)
            IN  /\ once.thrown = NoThrow
                /\ twice = once
                /\ \A p \in PromiseIds(Cur) :
                     ~Pending(p) =>
                        /\ once.promises[p].state = promises[p].state
                        /\ once.promises[p].outcome = promises[p].outcome

\* The same for the wrapper's own abort.
IdempotentWrapperAbort ==
    \A w \in WrapperIds(Cur) :
        LET once == abort(Cur, w)
            twice == abort(once, w)
        IN  /\ twice = once
            /\ \A p \in PromiseIds(Cur) :
                 ~Pending(p) =>
                    /\ once.promises[p].state = promises[p].state
                    /\ once.promises[p].outcome = promises[p].outcome

----------------------------------------------------------------------------
\* C8  Wrapper settles exactly once: a settled future keeps its state and its
\* outcome in every later step.
C8_SettlesOnce ==
    [][\A p \in PromiseIds(Cur) :
          ~Pending(p) =>
             /\ promises'[p].state = promises[p].state
             /\ promises'[p].outcome = promises[p].outcome]_vars

\* Two invocations of one wrapper: one aborted while pending whose request then
\* resolved, one resolved by its request and aborted afterwards; every reaction ran.
C8_Witness ==
    /\ \E p \in PromiseIds(Cur) :
        /\ promises[p].cancelledFirst /\ RejectedWith(p, AbortError)
        /\ promises[p].req = "fulfilled" /\ ReactionsDone(p)
    /\ \E p \in PromiseIds(Cur) :
        /\ ~promises[p].cancelledFirst /\ Resolved(p)
        /\ Token(p).aborted

----------------------------------------------------------------------------
\* C9  Cancellation wins when it comes first: a future whose token aborted while
\* it was pending is rejected with AbortError, and its consumer's then-callback
\* never runs, whatever its underlying request does later.
C9_CancellationWins ==
    \A p \in PromiseIds(Cur) :
        promises[p].cancelledFirst =>
            /\ RejectedWith(p, AbortError)
            /\ promises[p].thenRan = "no"

\* A superseded call and a manually aborted call whose requests ignored the signal
\* and ran to completion, one resolving, one rejecting.
C9_Witness ==
    /\ Len(promises) >= 2
    /\ promises[1].cancelledFirst /\ promises[2].cancelledFirst
    /\ Superseded(Cur, 1) /\ ~Superseded(Cur, 2)
    /\ ReactionsDone(1) /\ ReactionsDone(2)
    /\ promises[1].req = "fulfilled" /\ promises[2].req = "rejected"
    /\ microtasks = <<>>

----------------------------------------------------------------------------
\* C10  Verbatim pass-through, as claimed: once the underlying request has settled
\* with its token not aborted, the future settles with the request's outcome.
C10_RequestSettledFirst ==
    [][\A p \in PromiseIds(Cur) :
          (Pending(p) /\ promises[p].req \in {"fulfilled", "rejected"} /\ ~Token(p).aborted) =>
             \/ promises'[p].state = "pending"
             \/ promises'[p].outcome = promises[p].plan]_vars

\* C10  as amended: a future settled by its request's reaction before any
\* cancellation holds exactly the request's outcome, resolved with its value or
\* rejected with its error, and a later cancellation does not alter it.
C10_PassThrough ==
    \A p \in PromiseIds(Cur) :
        (~Pending(p) /\ ~promises[p].cancelledFirst) =>
            /\ promises[p].outcome = promises[p].plan
            /\ promises[p].state = IF promises[p].plan.kind = "value"
                                   THEN "resolved" ELSE "rejected"

\* One future resolved with its request's value, one rejected with its request's
\* own error, and the wrapper aborted after both.
C10_Witness ==
    /\ \E p \in PromiseIds(Cur) :
        Resolved(p) /\ promises[p].outcome = Outcome("value", p) /\ Token(p).aborted
    /\ \E p \in PromiseIds(Cur) :
        RejectedWith(p, Outcome("error", p)) /\ Token(p).aborted

----------------------------------------------------------------------------
\* C11  Pre-aborted wrapper: every invocation of a wrapper whose token is already
\* aborted returns a future rejected with AbortError, and the underlying request
\* of that invocation is not called; such a future stays as it is.
C11_PreAbortedRejects ==
    /\ [](\A p \in PromiseIds(Cur) :
            promises[p].req = "none" => RejectedWith(p, AbortError))
    /\ [][\A w \in WrapperIds(Cur) :
            (/\ wrappers[w].aborted
             /\ Len(promises') = Len(promises) + 1
             /\ promises'[Len(promises')].w = w) =>
                /\ promises'[Len(promises')].state = "rejected"
                /\ promises'[Len(promises')].outcome = AbortError
                /\ promises'[Len(promises')].req = "none"
                /\ wrappers'[w].listeners = wrappers[w].listeners]_vars

\* An invocation before abort() resolved with its request's value; the two
\* invocations after abort() are rejected with AbortError, their requests never
\* called, and the consumers have seen the rejections.
C11_Witness ==
    /\ Len(promises) = 3
    /\ Resolved(1) /\ promises[1].req = "fulfilled"
    /\ \A p \in {2, 3} :
        /\ promises[p].w = promises[1].w
        /\ promises[p].req = "none"
        /\ RejectedWith(p, AbortError)
        /\ promises[p].classified = "true"

----------------------------------------------------------------------------
\* C12  Spaced-out calls are independent: while every call and every abort() of a
\* coordinator found all its earlier futures settled, no future of the coordinator
\* is cancelled or rejected with AbortError, and every settled one holds its own
\* request's outcome, resolved with its value or rejected with its error.
C12_SpacedCallsIndependent ==
    \A c \in Coordinators :
        spaced[c] =>
            \A p \in PromisesOf(Cur, c) :
                /\ ~promises[p].cancelledFirst
                /\ ~RejectedWith(p, AbortError)
                /\ ~Pending(p) =>
                    /\ promises[p].outcome = Outcome(promises[p].plan.kind, p)
                    /\ Resolved(p) <=> promises[p].plan.kind = "value"

\* Three spaced-out calls, all settled: the first resolved, the second rejected
\* with its request's error, both with their tokens aborted by the call after.
C12_Witness ==
    /\ spaced["c1"]
    /\ PromisesOf(Cur, "c1") = {1, 2, 3}
    /\ Resolved(1) /\ promises[1].outcome = Outcome("value", 1)
    /\ RejectedWith(2, Outcome("error", 2))
    /\ Token(1).aborted /\ Token(2).aborted
    /\ ~Pending(3) /\ ~Token(3).aborted
    /\ microtasks = <<>>

----------------------------------------------------------------------------
\* C13  Synchronous-throw safety: when the underlying request throws instead of
\* returning a promise, no exception leaves the coordinator call, the call returns
\* a future rejected with the very error thrown, which stays so, and the call has
\* cancelled the previous instance and recorded the new one as current.
C13_SyncThrowRejects ==
    /\ [](/\ thrown.op # "call"
          /\ \A p \in PromiseIds(Cur) :
                promises[p].req = "threw" => RejectedWith(p, Outcome(Throw, p)))
    /\ [][\A c \in Coordinators :
            (/\ Len(promises') = Len(promises) + 1
             /\ promises'[Len(promises')].req = "threw"
             /\ wrappers'[promises'[Len(promises')].w].owner = c) =>
                /\ thrown' = NoThrow
                /\ promises'[Len(promises')].w \notin WrapperIds(Cur)
                /\ cleanup'[c] = promises'[Len(promises')].w
                /\ \A w \in WrappersOf(Cur, c) : wrappers'[w].aborted
                /\ \A q \in PromisesOf(Cur, c) :
                    Pending(q) => /\ promises'[q].state = "rejected"
                                  /\ promises'[q].outcome = AbortError]_vars

\* A pending call was superseded by a call whose request threw: the first is
\* rejected with AbortError, the second with the thrown error, which its consumer
\* has seen, and the second instance is the current one.
C13_Witness ==
    /\ Len(promises) >= 2
    /\ promises[1].req = "inflight" /\ promises[1].cancelledFirst
    /\ RejectedWith(1, AbortError)
    /\ promises[2].req = "threw"
    /\ RejectedWith(2, Outcome(Throw, 2))
    /\ promises[2].classified = "false"
    /\ cleanup["c1"] = promises[2].w
    /\ thrown = NoThrow

----------------------------------------------------------------------------
\* C14  Argument forms: in every reachable state, a call whose argument list is
\* exactly one callable invokes it once, with the signal of the call's new
\* instance, and passes the list it returns to the wrapper; a call with any other
\* argument list does not invoke anything and passes the list on unchanged.
C14_NewInstance == Len(wrappers) + 1
C14_Forwarded(after) ==
    LET p == CHOOSE q \in 1..Len(after.promises) : after.promises[q].w = C14_NewInstance
    IN  after.promises[p].arg
C14_ArgumentForms ==
    \A c \in Coordinators, arg \in ArgForms :
        LET after == autoAbortExpiredRequest(Cur, c, arg, "value")
            builder == after.wrappers[C14_NewInstance].builder
        IN  IF Len(arg) = 1 /\ arg[1].callable
            THEN /\ builder.runs = 1
                 /\ builder.signal = C14_NewInstance
                 /\ C14_Forwarded(after) = Built(C14_NewInstance)
            ELSE /\ builder.runs = 0
                 /\ C14_Forwarded(after) = arg

\* Three calls: a lone builder, invoked once with its instance's signal, whose
\* list reached the request; a callable followed by a value and an empty list,
\* both passed on as they were, no builder invoked.
C14_Witness ==
    /\ Len(promises) = 3
    /\ wrappers[promises[1].w].builder.runs = 1
    /\ wrappers[promises[1].w].builder.signal = promises[1].w
    /\ promises[1].arg = Built(promises[1].w)
    /\ promises[1].req = "inflight"
    /\ promises[2].arg = <<Callable("none"), Plain("b")>>
    /\ wrappers[promises[2].w].builder.runs = 0
    /\ promises[2].req = "inflight"
    /\ promises[3].arg = <<>>
    /\ wrappers[promises[3].w].builder.runs = 0
    /\ promises[3].req = "inflight"

----------------------------------------------------------------------------
\* C15  Classifier correctness: isAbortError applied to whatever a future was
\* rejected with never throws, and answers true exactly when the value carries
\* the name 'AbortError'.
C15_ClassifierTotal ==
    \A p \in PromiseIds(Cur) :
        promises[p].classified # "no" =>
            /\ promises[p].classified # "TypeError"
            /\ promises[p].classified = "true" <=> promises[p].outcome.name = "AbortError"

----------------------------------------------------------------------------
\* C16  Coordinators are independent: each coordinator's current slot holds an
\* instance of its own, and in every reachable state a call or an abort() on one
\* coordinator leaves the slot of the other, the tokens of the other's instances
\* and the futures of the other's calls exactly as they were.
C16_Untouched(after, d) ==
    /\ after.cleanup[d] = cleanup[d]
    /\ \A w \in WrappersOf(Cur, d) : after.wrappers[w] = wrappers[w]
    /\ \A p \in PromisesOf(Cur, d) : after.promises[p] = promises[p]
C16_CoordinatorsIndependent ==
    \A c \in Coordinators :
        /\ cleanup[c] \in WrappersOf(Cur, c) \cup {Undefined}
        /\ \A d \in Coordinators \ {c} :
            /\ C16_Untouched(coordinatorAbort(Cur, c), d)
            /\ C16_Untouched(autoAbortExpiredRequest(Cur, c, Literal, "value"), d)

\* A call on c1, a call on c2, a second call on c1 and c1.abort(): both calls on c1
\* are cancelled, the call on c2 in between is still pending, its token not aborted.
C16_Witness ==
    /\ Len(promises) = 3
    /\ Owner(1) = "c1" /\ Owner(2) = "c2" /\ Owner(3) = "c1"
    /\ RejectedWith(1, AbortError) /\ RejectedWith(3, AbortError)
    /\ Token(1).aborted /\ Token(3).aborted
    /\ Pending(2) /\ ~Token(2).aborted
    /\ cleanup["c2"] = promises[2].w

----------------------------------------------------------------------------
\* C17  Single live attempt: in every reachable state a coordinator has at most
\* one instance whose future is pending and whose token is not aborted, also when
\* argument builders call the coordinator or its abort() re-entrantly.
C17_Live(c) == {p \in PromisesOf(Cur, c) : Pending(p) /\ ~Token(p).aborted}
C17_SingleLiveAttempt ==
    \A c \in Coordinators : Cardinality({promises[p].w : p \in C17_Live(c)}) <= 1

\* A call whose builder called abort(), then a call whose builder called the
\* coordinator: the first is rejected unstarted, the nested call (made on the
\* later instance, its future returned first) is the one live attempt, and the
\* outer call is rejected with AbortError without starting its request.
C17_Witness ==
    /\ Len(promises) = 3
    /\ wrappers[promises[1].w].builder.runs = 1
    /\ promises[1].req = "none" /\ RejectedWith(1, AbortError)
    /\ promises[3].w < promises[2].w
    /\ wrappers[promises[3].w].builder.runs = 1
    /\ promises[3].req = "none" /\ RejectedWith(3, AbortError)
    /\ C17_Live("c1") = {2}
    /\ cleanup["c1"] = promises[2].w

----------------------------------------------------------------------------
\* C18  Per-call step order, as claimed: the builder runs before the new instance
\* is recorded as current, so the builder of an instance never finds the current
\* slot referring to that instance.
C18_BuilderBeforeRecord ==
    \A w \in WrapperIds(Cur) :
        wrappers[w].builder.runs > 0 => wrappers[w].builder.slot # w

\* C18  as amended: the builder runs after the previous instance is cancelled and
\* the new one recorded as current, and before the wrapper is invoked.  It finds
\* the current slot referring to its own instance, whose token is not aborted;
\* when it calls abort() or the coordinator, it is its own instance that is
\* cancelled, and the wrapper invoked afterwards rejects without starting a request.
C18_BuilderAfterRecord ==
    \A w \in WrapperIds(Cur) :
        wrappers[w].builder.runs > 0 =>
            /\ wrappers[w].builder.slot = w
            /\ ~wrappers[w].builder.aborted
            /\ \A x \in WrappersOf(Cur, wrappers[w].owner) : x < w => wrappers[x].aborted
            /\ wrappers[w].builder.did \in {"abort", "call"} =>
                /\ wrappers[w].aborted
                /\ \E p \in PromiseIds(Cur) : promises[p].w = w
                /\ \A p \in PromiseIds(Cur) :
                    promises[p].w = w =>
                        promises[p].req = "none" /\ RejectedWith(p, AbortError)

\* A pending call, superseded by a call whose builder called abort(), followed by
\* a call with a plain builder: each builder found its own instance in the slot;
\* the second call never started its request, the third is pending with the list
\* its builder returned.
C18_Witness ==
    /\ Len(promises) = 3
    /\ promises[1].cancelledFirst /\ promises[1].req # "none"
    /\ wrappers[promises[2].w].builder.did = "abort"
    /\ wrappers[promises[2].w].builder.slot = promises[2].w
    /\ promises[2].req = "none" /\ RejectedWith(2, AbortError)
    /\ wrappers[promises[3].w].builder.runs = 1
    /\ wrappers[promises[3].w].builder.did = "none"
    /\ wrappers[promises[3].w].builder.slot = promises[3].w
    /\ Pending(3) /\ promises[3].arg = Built(promises[3].w)

----------------------------------------------------------------------------
\* The token of instance w of a coordinator goes from not aborted to aborted.
C19_Aborts(w) ==
    /\ wrappers[w].owner \in Coordinators
    /\ ~wrappers[w].aborted
    /\ wrappers'[w].aborted

\* C19  Cancellation targets only unsettled current calls, as claimed: a token is
\* aborted only while its instance is recorded as current and its future has not
\* settled.
C19_OnlyUnsettledAborted ==
    [][\A w \in WrapperIds(Cur) :
          C19_Aborts(w) =>
             /\ cleanup[wrappers[w].owner] = w
             /\ \A p \in PromiseIds(Cur) : promises[p].w = w => Pending(p)]_vars

\* C19  as amended: a token is aborted only while its instance is recorded as
\* current, whether or not its future has settled: every call leaves the tokens of
\* all earlier instances aborted.  Aborting rejects a pending future with
\* AbortError and leaves a settled future as it is.
C19_OnlyCurrentAborted ==
    [][/\ \A w \in WrapperIds(Cur) :
            C19_Aborts(w) =>
               /\ cleanup[wrappers[w].owner] = w
               /\ \A p \in PromiseIds(Cur) :
                    promises[p].w = w =>
                       IF Pending(p)
                       THEN /\ promises'[p].state = "rejected"
                            /\ promises'[p].outcome = AbortError
                       ELSE /\ promises'[p].state = promises[p].state
                            /\ promises'[p].outcome = promises[p].outcome
       /\ \A c \in Coordinators :
            WrappersOf(Cur, c) # WrappersOf(Cur, c)' =>
               \A w \in WrappersOf(Cur, c) : wrappers'[w].aborted]_vars

\* A call that resolved and was then superseded, and a call that failed with its
\* request's error before abort() was called: both tokens are aborted, both
\* futures are as their requests settled them.
C19_Witness ==
    /\ Len(promises) >= 2
    /\ Resolved(1) /\ ~promises[1].cancelledFirst /\ Token(1).aborted
    /\ promises[1].thenRan = "fresh"
    /\ RejectedWith(2, Outcome("error", 2)) /\ ~promises[2].cancelledFirst
    /\ Token(2).aborted /\ ~Superseded(Cur, 2)

----------------------------------------------------------------------------
\* The futures returned by coordinator calls.
C20_Calls == {p \in PromiseIds(Cur) : Owner(p) \in Coordinators}

\* C20  Token monotonicity and freshness: the calls of a coordinator have tokens
\* of their own, each made by its call; a builder is handed the signal of its own
\* instance, not aborted; a call whose builder does not use the coordinator starts
\* its request (its token is not aborted then); an aborted token stays aborted;
\* and no step aborts the tokens of two earlier instances.
C20_TokensFreshAndMonotonic ==
    /\ [](/\ \A p, q \in C20_Calls : promises[p].w = promises[q].w => p = q
          /\ \A w \in WrapperIds(Cur) :
                wrappers[w].builder.runs > 0 =>
                    /\ wrappers[w].builder.signal = w
                    /\ ~wrappers[w].builder.aborted
          /\ \A p \in C20_Calls :
                wrappers[promises[p].w].builder.did = "none" => promises[p].req # "none")
    /\ [][/\ \A w \in WrapperIds(Cur) : wrappers[w].aborted => wrappers'[w].aborted
          /\ \A p \in C20_Calls' \ C20_Calls : promises'[p].w \notin WrapperIds(Cur)
          /\ \A w, x \in WrapperIds(Cur) :
                (/\ ~wrappers[w].aborted /\ wrappers'[w].aborted
                 /\ ~wrappers[x].aborted /\ wrappers'[x].aborted) => w = x]_vars

\* Three calls, the second with a builder: three tokens, the first two aborted
\* by the calls that followed, the third not; the builder got a signal not
\* aborted, and all three requests were started.
C20_Witness ==
    /\ Len(promises) = 3
    /\ Cardinality({promises[p].w : p \in C20_Calls}) = 3
    /\ \A p \in C20_Calls : promises[p].req # "none"
    /\ Token(1).aborted /\ Token(2).aborted /\ ~Token(3).aborted
    /\ wrappers[promises[2].w].builder.runs = 1
    /\ wrappers[promises[2].w].builder.did = "none"
    /\ promises[2].arg = Built(promises[2].w)
    /\ Resolved(3)

====
